---- MODULE Spec2Model ----
(***************************************************************************)
(* GlobalAccount of crates/pumpfun/src/accounts/global.rs: the Borsh wire  *)
(* image of the record and the constant-product quote                      *)
(* get_initial_buy_price.                                                  *)
(*                                                                         *)
(* Integer widths.  TLC's integers are 32-bit, so the quote's arithmetic   *)
(* is checked exhaustively at a reduced width: a "u64" is Bits bits wide   *)
(* and a "u128" is twice that, which keeps the source's relation between   *)
(* the operand type and the intermediate type.  Every operation keeps its  *)
(* width: the exact result and the wrapped result are both computed, and   *)
(* a build with overflow checks panics where they differ.  The same quote  *)
(* is also evaluated at the source's own widths, 64 and 128 bits, on       *)
(* numbers kept as digit sequences, for the documented scenario and the    *)
(* ends of the u64 range.                                                  *)
(***************************************************************************)
EXTENDS Integers, Sequences, FiniteSets, TLC

VARIABLES
    account,          \* the GlobalAccount the calls are made on (&self)
    amount,           \* the argument of get_initial_buy_price
    overflow_checks,  \* the build: TRUE = overflow checks on (debug profile)
    quoted,           \* outcome of get_initial_buy_price, NoCall before it
    bytes,            \* a byte buffer: output of serialize / input of deserialize
    decoded           \* outcome of deserialize, NoCall before it

vars == <<account, amount, overflow_checks, quoted, bytes, decoded>>

(***************************************************************************)
(* Bounds                                                                  *)
(***************************************************************************)
\* width in bits of the model's u64; the model's u128 has 2 * Bits bits
Bits == 3

(***************************************************************************)
(* Integer types of the source                                             *)
(***************************************************************************)
U64Bits == Bits

U128Bits == 2 * U64Bits

U64Max == 2^U64Bits - 1
U128Max == 2^U128Bits - 1
U64 == 0..U64Max

\* `x as u128` of a u64: zero extension
AsU128(x) == x % (U128Max + 1)
\* `x as u64` of a u128: truncation to the low half
AsU64(x) == x % (U64Max + 1)
\* the value a u128 operation leaves when overflow checks are off
WrapU128(x) == x % (U128Max + 1)
\* whether the exact result of a u128 operation is representable
FitsU128(x) == x >= 0 /\ x <= U128Max

NoCall == [kind |-> "none"]
\* a call that returned `value`; ops lists the arithmetic it performed
Returned(value, ops) == [kind |-> "ok", value |-> value, ops |-> ops]
\* a call that panicked at operation `at` (no value reaches the caller)
Panicked(at, ops) == [kind |-> "panic", at |-> at, ops |-> ops]

(***************************************************************************)
(* get_initial_buy_price: the locals n, i, r, s.  X_exact is the           *)
(* mathematical result of the operation on its (already wrapped)           *)
(* operands, X the u128 value it leaves.                                   *)
(***************************************************************************)
n_exact(self) ==
    AsU128(self.initial_virtual_sol_reserves)
        * AsU128(self.initial_virtual_token_reserves)

let_n(self) == WrapU128(n_exact(self))

\* faulty variant: the amount is subtracted from the SOL reserves
i_exact_minus(self, amt) == AsU128(self.initial_virtual_sol_reserves) - AsU128(amt)

i_exact(self, amt) == AsU128(self.initial_virtual_sol_reserves) + AsU128(amt)

let_i(self, amt) == WrapU128(i_exact(self, amt))

\* faulty variant: the quotient without the + 1 bias
r_exact_no_bias(self, amt) == let_n(self) \div let_i(self, amt)

\* defined when let_i # 0; the division truncates
r_exact(self, amt) == (let_n(self) \div let_i(self, amt)) + 1

let_r(self, amt) == WrapU128(r_exact(self, amt))

s_exact(self, amt) ==
    AsU128(self.initial_virtual_token_reserves) - let_r(self, amt)

let_s(self, amt) == WrapU128(s_exact(self, amt))

\* faulty variant: the comparison of the clamp reversed
BelowCeiling_reversed(self, amt) ==
    let_s(self, amt) > AsU128(self.initial_real_token_reserves)

\* the condition of the final if
BelowCeiling(self, amt) ==
    let_s(self, amt) < AsU128(self.initial_real_token_reserves)

\* faulty variant: no early return for a zero amount
IsZeroAmount_never(amt) == FALSE

IsZeroAmount(amt) == amt = 0

get_initial_buy_price(self, amt, checks) ==
    IF IsZeroAmount(amt) THEN Returned(0, <<>>)
    ELSE IF checks /\ ~FitsU128(n_exact(self))
        THEN Panicked("mul", <<"mul">>)
    ELSE IF checks /\ ~FitsU128(i_exact(self, amt))
        THEN Panicked("add", <<"mul", "add">>)
    ELSE IF let_i(self, amt) = 0
        THEN Panicked("div", <<"mul", "add", "div">>)
    ELSE IF checks /\ ~FitsU128(r_exact(self, amt))
        THEN Panicked("inc", <<"mul", "add", "div", "inc">>)
    ELSE IF checks /\ ~FitsU128(s_exact(self, amt))
        THEN Panicked("sub", <<"mul", "add", "div", "inc", "sub">>)
    ELSE IF BelowCeiling(self, amt)
        THEN Returned(AsU64(let_s(self, amt)),
                      <<"mul", "add", "div", "inc", "sub", "cmp", "cast">>)
    ELSE Returned(self.initial_real_token_reserves,
                  <<"mul", "add", "div", "inc", "sub", "cmp">>)

(***************************************************************************)
(* The same arithmetic at the source's widths, u64 operands and u128       *)
(* intermediates.  A number is the sequence of its base-10000 digits,      *)
(* least significant first, without leading zeros; 0 is <<>>.  As in the   *)
(* source, where every operand and every `let` is a value computed once,   *)
(* each operation first takes the values of its operands (With, With2).    *)
(***************************************************************************)
Base == 10000

\* F applied to the value of v, computed once
With(v, F(_)) == CHOOSE r \in { F(x) : x \in {v} } : TRUE

\* F applied to the values of v and w, each computed once
With2(v, w, F(_, _)) == CHOOSE r \in { F(x, y) : x \in {v}, y \in {w} } : TRUE

\* digit k of a, 0 above its length
BigDigit(a, k) == IF k <= Len(a) THEN a[k] ELSE 0

\* v without leading zeros
BigNorm(v) ==
    With(v, LAMBDA a :
        SubSeq(a, 1, CHOOSE k \in 0..Len(a) :
                         /\ k = 0 \/ a[k] # 0
                         /\ \A j \in (k + 1)..Len(a) : a[j] = 0))

RECURSIVE BigFromNat(_)
BigFromNat(x) ==
    IF x = 0 THEN <<>> ELSE <<x % Base>> \o BigFromNat(x \div Base)

\* v + w: the carry into digit k comes from the nearest lower digit whose
\* sum overflows, through digits whose sum is Base - 1
BigAdd(v, w) ==
    With2(v, w, LAMBDA a, b :
        LET top == (IF Len(a) > Len(b) THEN Len(a) ELSE Len(b)) + 1
            sum(k) == BigDigit(a, k) + BigDigit(b, k)
            carry(k) ==
                IF \E j \in 1..(k - 1) :
                       /\ sum(j) >= Base
                       /\ \A m \in (j + 1)..(k - 1) : sum(m) = Base - 1
                THEN 1 ELSE 0
        IN  BigNorm([k \in 1..top |-> (sum(k) + carry(k)) % Base]))

BigLess(v, w) ==
    With2(v, w, LAMBDA a, b :
        IF Len(a) # Len(b) THEN Len(a) < Len(b)
        ELSE \E k \in 1..Len(a) :
                 /\ a[k] < b[k]
                 /\ \A m \in (k + 1)..Len(a) : a[m] = b[m])

BigLeq(v, w) == ~BigLess(w, v)

\* v - w for v >= w: the borrow into digit k comes from the nearest lower
\* digit where v's is smaller, through digits where the two are equal
BigSub(v, w) ==
    With2(v, w, LAMBDA a, b :
        LET borrow(k) ==
                IF \E j \in 1..(k - 1) :
                       /\ a[j] < BigDigit(b, j)
                       /\ \A m \in (j + 1)..(k - 1) : a[m] = BigDigit(b, m)
                THEN 1 ELSE 0
        IN  BigNorm([k \in 1..Len(a) |->
                        (a[k] - BigDigit(b, k) - borrow(k)) % Base]))

\* v * e for a digit e: the low and the high halves of the digit products
BigMulDigit(v, e) ==
    With2(v, e, LAMBDA a, d :
        BigAdd(BigNorm([k \in 1..Len(a) |-> (a[k] * d) % Base]),
               BigNorm(<<0>> \o [k \in 1..Len(a) |-> (a[k] * d) \div Base])))

RECURSIVE SumUpTo(_, _)
\* f[1] + ... + f[k]
SumUpTo(f, k) == IF k = 0 THEN 0 ELSE f[k] + SumUpTo(f, k - 1)

\* the sums of the columns of v * w: column k sums the digit products
\* a[j] * b[k + 1 - j] (at most 10 of them for the operands used here, so
\* below 2^31)
BigMulColumns(v, w) ==
    With2(v, w, LAMBDA a, b :
        [k \in 1..(Len(a) + Len(b)) |->
            With([j \in 1..Len(a) |->
                     IF k + 1 - j >= 1 /\ k + 1 - j <= Len(b)
                     THEN a[j] * b[k + 1 - j] ELSE 0],
                 LAMBDA products : SumUpTo(products, Len(products)))])

\* v * w: each column sum is split into its three base-10000 digits
BigMul(v, w) ==
    With(BigMulColumns(v, w), LAMBDA column :
        BigAdd(BigAdd([k \in DOMAIN column |-> column[k] % Base],
                      <<0>> \o [k \in DOMAIN column |->
                                   (column[k] \div Base) % Base]),
               <<0, 0>> \o [k \in DOMAIN column |->
                               column[k] \div (Base * Base)]))

\* the largest of the candidates c with c * e <= v, or 0
BigLargestFit(v, e, candidates) ==
    With2(v, e, LAMBDA rem, d :
        With({ c \in candidates : BigLeq(BigMulDigit(d, c), rem) },
             LAMBDA fits :
                 IF fits = {} THEN 0
                 ELSE CHOOSE c \in fits : \A other \in fits : other <= c))

\* the largest digit q with q * d <= rem, for rem < d * Base: first among
\* the multiples of 100, then among the 100 digits from that multiple on
BigQuotientDigit(rem, d) ==
    With(BigLargestFit(rem, d, { 100 * j : j \in 0..99 }), LAMBDA coarse :
        BigLargestFit(rem, d, { coarse + j : j \in 0..99 }))

\* one step of the long division by d: the digit brought down in front of
\* the remainder so far, the next quotient digit, the new remainder
BigDivModStep(digit, acc, d) ==
    With(BigNorm(<<digit>> \o acc.rem), LAMBDA rem :
        With(BigQuotientDigit(rem, d), LAMBDA q :
            [quot |-> BigNorm(<<q>> \o acc.quot),
             rem |-> BigSub(rem, BigMulDigit(d, q))]))

RECURSIVE BigDivModLoop(_, _, _, _)
\* long division: the digits of a from the top one, a[k], down; acc holds
\* the quotient and the remainder of the digits above a[k]
BigDivModLoop(a, d, k, acc) ==
    IF k = 0 THEN acc
    ELSE With(BigDivModStep(a[k], acc, d), LAMBDA next :
             BigDivModLoop(a, d, k - 1, next))

\* truncating division, for w # 0: the top Len(w) - 1 digits of v are
\* below w and start the remainder
BigDivMod(v, w) ==
    With2(v, w, LAMBDA a, d :
        With(IF Len(a) < Len(d) - 1 THEN Len(a) ELSE Len(d) - 1, LAMBDA skip :
            BigDivModLoop(a, d, Len(a) - skip,
                          [quot |-> <<>>,
                           rem |-> SubSeq(a, Len(a) - skip + 1, Len(a))])))

BigDiv(a, d) == BigDivMod(a, d).quot

\* 2^64 and 2^128, by squaring 2^16 = 65536
TwoTo32 == BigMul(BigFromNat(65536), BigFromNat(65536))
TwoTo64 == BigMul(TwoTo32, TwoTo32)
\* faulty variant: the intermediates no wider than the operands (no "as u128")
TwoTo128_narrow == TwoTo64
TwoTo128 == BigMul(TwoTo64, TwoTo64)

\* u64::MAX and u128::MAX
WideU64Max == BigSub(TwoTo64, <<1>>)
WideU128Max == BigSub(TwoTo128, <<1>>)

WideFitsU128(x) == BigLeq(x, WideU128Max)
\* the value a u128 operation leaves when overflow checks are off
WideWrapU128(v) ==
    With(v, LAMBDA x :
        IF BigLess(x, TwoTo128) THEN x ELSE BigDivMod(x, TwoTo128).rem)
\* `v as u64`
WideAsU64(v) ==
    With(v, LAMBDA x :
        IF BigLess(x, TwoTo64) THEN x ELSE BigDivMod(x, TwoTo64).rem)

\* line 87: the exact product of the two virtual reserves
wide_n_exact(self) ==
    BigMul(self.initial_virtual_sol_reserves,
           self.initial_virtual_token_reserves)

\* line 87: the u128 n
wide_n(self) == WideWrapU128(wide_n_exact(self))

\* line 89: the exact sum
wide_i_exact(self, amt) == BigAdd(self.initial_virtual_sol_reserves, amt)

\* line 89: the u128 i
wide_i(self, amt) == WideWrapU128(wide_i_exact(self, amt))

\* faulty variant: the quotient without the + 1 bias
wide_r_exact_no_bias(n, i) == BigDiv(n, i)

\* line 90, from the u128 values of n and i, for i # 0
wide_r_exact(n, i) == BigAdd(BigDiv(n, i), <<1>>)

\* line 91: whether the subtraction underflows, for the u128 value of r
wide_s_underflows(self, r) ==
    BigLess(self.initial_virtual_token_reserves, r)

\* line 91: the u128 the subtraction leaves, wrapped around on underflow
wide_s(self, r) ==
    IF wide_s_underflows(self, r)
    THEN BigSub(TwoTo128, BigSub(r, self.initial_virtual_token_reserves))
    ELSE BigSub(self.initial_virtual_token_reserves, r)

\* lines 87-91: the locals of a call that reaches the subtraction (i # 0)
wide_locals(self, amt) ==
    With2(wide_n(self), wide_i(self, amt), LAMBDA n, i :
    With(wide_r_exact(n, i), LAMBDA rx :
    With(WideWrapU128(rx), LAMBDA r :
        [n |-> n, i |-> i, r_exact |-> rx, r |-> r, s |-> wide_s(self, r)])))

wide_get_initial_buy_price(self, amt, checks) ==
    IF amt = <<>> THEN Returned(<<>>, <<>>)
    ELSE IF checks /\ ~WideFitsU128(wide_n_exact(self))
        THEN Panicked("mul", <<"mul">>)
    ELSE IF checks /\ ~WideFitsU128(wide_i_exact(self, amt))
        THEN Panicked("add", <<"mul", "add">>)
    ELSE IF wide_i(self, amt) = <<>>
        THEN Panicked("div", <<"mul", "add", "div">>)
    ELSE With(wide_locals(self, amt), LAMBDA l :
    IF checks /\ ~WideFitsU128(l.r_exact)
        THEN Panicked("inc", <<"mul", "add", "div", "inc">>)
    ELSE IF checks /\ wide_s_underflows(self, l.r)
        THEN Panicked("sub", <<"mul", "add", "div", "inc", "sub">>)
    ELSE IF BigLess(l.s, self.initial_real_token_reserves)
        THEN Returned(WideAsU64(l.s),
                      <<"mul", "add", "div", "inc", "sub", "cmp", "cast">>)
    ELSE Returned(self.initial_real_token_reserves,
                  <<"mul", "add", "div", "inc", "sub", "cmp">>))

(***************************************************************************)
(* The record and its constructor                                          *)
(***************************************************************************)
\* length of the two identifier fields, [u8; 32]
KeyLen == 32

\* a Pubkey of the SDK: a wrapper of its 32 bytes
Pubkey(key_bytes) == [pubkey |-> key_bytes]
to_bytes(key) == key.pubkey

GlobalAccount ==
    {"discriminator", "initialized", "authority_bytes", "fee_recipient_bytes",
     "initial_virtual_token_reserves", "initial_virtual_sol_reserves",
     "initial_real_token_reserves", "token_total_supply", "fee_basis_points"}

new(discriminator, initialized, authority, fee_recipient, initial_virtual_token_reserves, initial_virtual_sol_reserves, initial_real_token_reserves, token_total_supply, fee_basis_points) ==
    [discriminator |-> discriminator,
     initialized |-> initialized,
     authority_bytes |-> to_bytes(authority),
     fee_recipient_bytes |-> to_bytes(fee_recipient),
     initial_virtual_token_reserves |-> initial_virtual_token_reserves,
     initial_virtual_sol_reserves |-> initial_virtual_sol_reserves,
     initial_real_token_reserves |-> initial_real_token_reserves,
     token_total_supply |-> token_total_supply,
     fee_basis_points |-> fee_basis_points]

ZeroKey == Pubkey([k \in 1..KeyLen |-> 0])

(***************************************************************************)
(* The Borsh image derived for the struct: the fields in declaration       *)
(* order, integers little-endian, a bool as one byte, a byte array as its  *)
(* bytes.                                                                  *)
(***************************************************************************)
RECURSIVE to_le_bytes(_, _)
to_le_bytes(x, width) ==
    IF width = 0 THEN <<>>
    ELSE <<x % 256>> \o to_le_bytes(x \div 256, width - 1)

RECURSIVE from_le_bytes(_)
from_le_bytes(le) ==
    IF le = <<>> THEN 0
    ELSE le[1] + 256 * from_le_bytes(Tail(le))

serialize_u64(x) == to_le_bytes(x, 8)
serialize_bool(b) == <<IF b THEN 1 ELSE 0>>
serialize_array(a) == a

\* faulty variant: the two virtual reserves written in the other order
serialize_swapped(self) ==
    serialize_u64(self.discriminator)
        \o serialize_bool(self.initialized)
        \o serialize_array(self.authority_bytes)
        \o serialize_array(self.fee_recipient_bytes)
        \o serialize_u64(self.initial_virtual_sol_reserves)
        \o serialize_u64(self.initial_virtual_token_reserves)
        \o serialize_u64(self.initial_real_token_reserves)
        \o serialize_u64(self.token_total_supply)
        \o serialize_u64(self.fee_basis_points)

serialize(self) ==
    serialize_u64(self.discriminator)
        \o serialize_bool(self.initialized)
        \o serialize_array(self.authority_bytes)
        \o serialize_array(self.fee_recipient_bytes)
        \o serialize_u64(self.initial_virtual_token_reserves)
        \o serialize_u64(self.initial_virtual_sol_reserves)
        \o serialize_u64(self.initial_real_token_reserves)
        \o serialize_u64(self.token_total_supply)
        \o serialize_u64(self.fee_basis_points)

\* the outcome of a read: the value and the unread rest, or an error that
\* leaves the buffer where the read began
Ok(value, rest) == [kind |-> "ok", value |-> value, rest |-> rest]
Err(error, rest) == [kind |-> "err", error |-> error, rest |-> rest]

\* the next k bytes of the buffer
read_exact(buf, k) ==
    IF Len(buf) < k THEN Err("UnexpectedLength", buf)
    ELSE Ok(SubSeq(buf, 1, k), SubSeq(buf, k + 1, Len(buf)))

deserialize_u64(buf) ==
    LET got == read_exact(buf, 8)
    IN  IF got.kind = "err" THEN got
        ELSE Ok(from_le_bytes(got.value), got.rest)

deserialize_bool(buf) ==
    LET got == read_exact(buf, 1)
    IN  IF got.kind = "err" THEN got
        ELSE IF got.value[1] = 0 THEN Ok(FALSE, got.rest)
        ELSE IF got.value[1] = 1 THEN Ok(TRUE, got.rest)
        ELSE Err("InvalidBool", buf)

deserialize_array(buf) == read_exact(buf, KeyLen)

\* faulty variant: the two virtual reserves taken from each other's place
deserialize_swapped(buf) ==
    LET f1 == deserialize_u64(buf) IN
    IF f1.kind = "err" THEN f1 ELSE
    LET f2 == deserialize_bool(f1.rest) IN
    IF f2.kind = "err" THEN f2 ELSE
    LET f3 == deserialize_array(f2.rest) IN
    IF f3.kind = "err" THEN f3 ELSE
    LET f4 == deserialize_array(f3.rest) IN
    IF f4.kind = "err" THEN f4 ELSE
    LET f5 == deserialize_u64(f4.rest) IN
    IF f5.kind = "err" THEN f5 ELSE
    LET f6 == deserialize_u64(f5.rest) IN
    IF f6.kind = "err" THEN f6 ELSE
    LET f7 == deserialize_u64(f6.rest) IN
    IF f7.kind = "err" THEN f7 ELSE
    LET f8 == deserialize_u64(f7.rest) IN
    IF f8.kind = "err" THEN f8 ELSE
    LET f9 == deserialize_u64(f8.rest) IN
    IF f9.kind = "err" THEN f9 ELSE
    Ok([discriminator |-> f1.value,
        initialized |-> f2.value,
        authority_bytes |-> f3.value,
        fee_recipient_bytes |-> f4.value,
        initial_virtual_token_reserves |-> f6.value,
        initial_virtual_sol_reserves |-> f5.value,
        initial_real_token_reserves |-> f7.value,
        token_total_supply |-> f8.value,
        fee_basis_points |-> f9.value],
       f9.rest)

\* faulty variant: the last field is not read
deserialize_short(buf) ==
    LET f1 == deserialize_u64(buf) IN
    IF f1.kind = "err" THEN f1 ELSE
    LET f2 == deserialize_bool(f1.rest) IN
    IF f2.kind = "err" THEN f2 ELSE
    LET f3 == deserialize_array(f2.rest) IN
    IF f3.kind = "err" THEN f3 ELSE
    LET f4 == deserialize_array(f3.rest) IN
    IF f4.kind = "err" THEN f4 ELSE
    LET f5 == deserialize_u64(f4.rest) IN
    IF f5.kind = "err" THEN f5 ELSE
    LET f6 == deserialize_u64(f5.rest) IN
    IF f6.kind = "err" THEN f6 ELSE
    LET f7 == deserialize_u64(f6.rest) IN
    IF f7.kind = "err" THEN f7 ELSE
    LET f8 == deserialize_u64(f7.rest) IN
    IF f8.kind = "err" THEN f8 ELSE
    Ok([discriminator |-> f1.value,
        initialized |-> f2.value,
        authority_bytes |-> f3.value,
        fee_recipient_bytes |-> f4.value,
        initial_virtual_token_reserves |-> f5.value,
        initial_virtual_sol_reserves |-> f6.value,
        initial_real_token_reserves |-> f7.value,
        token_total_supply |-> f8.value,
        fee_basis_points |-> 0],
       f8.rest)

\* the derived deserialize: the fields in declaration order, the first
\* failing field ending the call
deserialize(buf) ==
    LET f1 == deserialize_u64(buf) IN
    IF f1.kind = "err" THEN f1 ELSE
    LET f2 == deserialize_bool(f1.rest) IN
    IF f2.kind = "err" THEN f2 ELSE
    LET f3 == deserialize_array(f2.rest) IN
    IF f3.kind = "err" THEN f3 ELSE
    LET f4 == deserialize_array(f3.rest) IN
    IF f4.kind = "err" THEN f4 ELSE
    LET f5 == deserialize_u64(f4.rest) IN
    IF f5.kind = "err" THEN f5 ELSE
    LET f6 == deserialize_u64(f5.rest) IN
    IF f6.kind = "err" THEN f6 ELSE
    LET f7 == deserialize_u64(f6.rest) IN
    IF f7.kind = "err" THEN f7 ELSE
    LET f8 == deserialize_u64(f7.rest) IN
    IF f8.kind = "err" THEN f8 ELSE
    LET f9 == deserialize_u64(f8.rest) IN
    IF f9.kind = "err" THEN f9 ELSE
    Ok([discriminator |-> f1.value,
        initialized |-> f2.value,
        authority_bytes |-> f3.value,
        fee_recipient_bytes |-> f4.value,
        initial_virtual_token_reserves |-> f5.value,
        initial_virtual_sol_reserves |-> f6.value,
        initial_real_token_reserves |-> f7.value,
        token_total_supply |-> f8.value,
        fee_basis_points |-> f9.value],
       f9.rest)

\* deserialize, and an error when bytes are left over
try_from_slice(buf) ==
    LET got == deserialize(buf)
    IN  IF got.kind = "ok" /\ got.rest # <<>>
        THEN Err("NotAllBytesRead", got.rest)
        ELSE got

(***************************************************************************)
(* Quoting: every account whose reserves are u64 values, every amount,     *)
(* both builds.                                                            *)
(***************************************************************************)
Init ==
    /\ \E vt \in U64, vs \in U64, rt \in U64 :
           account = new(0, TRUE, ZeroKey, ZeroKey, vt, vs, rt, U64Max, 0)
    /\ amount \in U64
    /\ overflow_checks \in BOOLEAN
    /\ quoted = NoCall
    /\ bytes = <<>>
    /\ decoded = NoCall

Quote ==
    /\ quoted = NoCall
    /\ quoted' = get_initial_buy_price(account, amount, overflow_checks)
    /\ UNCHANGED <<account, amount, overflow_checks, bytes, decoded>>

Next == Quote

Spec == Init /\ [][Next]_vars

(***************************************************************************)
(* Quoting at the source's widths: reserves and amounts drawn from the     *)
(* small values, the values of the documented scenario and the ends of     *)
(* the u64 range.                                                          *)
(***************************************************************************)
\* the small values 0..MaxSmall are among the operands
MaxSmall == 1

\* 1_000_000_000, 30_000_000_000 and 800_000_000
Giga == BigFromNat(1000000000)
ThirtyGiga == BigMul(BigFromNat(30), Giga)
EightHundredMega == BigFromNat(800000000)

SmallValues == { BigFromNat(x) : x \in 0..MaxSmall }

WideInit ==
    /\ \E vt \in SmallValues \cup {Giga, WideU64Max},
          vs \in SmallValues \cup {ThirtyGiga, WideU64Max},
          rt \in {<<>>, EightHundredMega, WideU64Max} :
           account = new(<<>>, TRUE, ZeroKey, ZeroKey, vt, vs, rt,
                         WideU64Max, <<>>)
    /\ amount \in SmallValues \cup {Giga, WideU64Max}
    /\ overflow_checks \in BOOLEAN
    /\ quoted = NoCall
    /\ bytes = <<>>
    /\ decoded = NoCall

WideQuote ==
    /\ quoted = NoCall
    /\ quoted' = wide_get_initial_buy_price(account, amount, overflow_checks)
    /\ UNCHANGED <<account, amount, overflow_checks, bytes, decoded>>

WideNext == WideQuote

WideSpec == WideInit /\ [][WideNext]_vars

(***************************************************************************)
(* The wire image: accounts with multi-byte field values, serialized; the  *)
(* buffer handed to the decoder is that image, a prefix of it, the image   *)
(* with another boolean byte, or the image with bytes after it.            *)
(***************************************************************************)
\* bytes that may follow the image in a buffer
MaxTrailing == 1

KeyA == Pubkey([k \in 1..KeyLen |-> k])
KeyB == Pubkey([k \in 1..KeyLen |-> 255 - k])

\* 0x01020304, 0x7FFFFFFF, 0x0102, 0x010000: values whose bytes differ
WireAccounts ==
    { new(disc, init, auth, KeyB, vt, 16909060, rt, 65536, bps) :
        disc \in {0, 2147483647}, init \in BOOLEAN, auth \in {KeyA, KeyB},
        vt \in {1, 16909060}, rt \in {258, 772}, bps \in {100, 2147483647} }

BadBools == {2, 255}

CodecInit ==
    /\ account \in WireAccounts
    /\ amount = 0
    /\ overflow_checks = TRUE
    /\ quoted = NoCall
    /\ bytes = <<>>
    /\ decoded = NoCall

\* BorshSerialize::serialize into an empty buffer
Serialize ==
    /\ bytes = <<>>
    /\ decoded = NoCall
    /\ bytes' = serialize(account)
    /\ UNCHANGED <<account, amount, overflow_checks, quoted, decoded>>

\* the caller holds only the first k bytes
Truncate ==
    /\ decoded = NoCall
    /\ bytes = serialize(account)
    /\ \E k \in 0..(Len(bytes) - 1) : bytes' = SubSeq(bytes, 1, k)
    /\ UNCHANGED <<account, amount, overflow_checks, quoted, decoded>>

\* the caller's buffer holds another value in the boolean's byte
CorruptBool ==
    /\ decoded = NoCall
    /\ Len(bytes) >= 9
    /\ bytes[9] \in {0, 1}
    /\ \E b \in BadBools : bytes' = [bytes EXCEPT ![9] = b]
    /\ UNCHANGED <<account, amount, overflow_checks, quoted, decoded>>

\* the caller's buffer is longer than the image
Extend ==
    /\ decoded = NoCall
    /\ Len(bytes) >= Len(serialize(account))
    /\ Len(bytes) < Len(serialize(account)) + MaxTrailing
    /\ bytes' = Append(bytes, 7)
    /\ UNCHANGED <<account, amount, overflow_checks, quoted, decoded>>

\* BorshDeserialize::deserialize on the buffer
Deserialize ==
    /\ decoded = NoCall
    /\ decoded' = deserialize(bytes)
    /\ UNCHANGED <<account, amount, overflow_checks, quoted, bytes>>

\* BorshDeserialize::try_from_slice on the buffer
TryFromSlice ==
    /\ decoded = NoCall
    /\ decoded' = try_from_slice(bytes)
    /\ UNCHANGED <<account, amount, overflow_checks, quoted, bytes>>

CodecNext ==
    \/ Serialize
    \/ Truncate
    \/ CorruptBool
    \/ Extend
    \/ Deserialize
    \/ TryFromSlice

CodecSpec == CodecInit /\ [][CodecNext]_vars

(***************************************************************************)
(* Properties of get_initial_buy_price (specification Spec)                *)
(***************************************************************************)
Min(a, b) == IF a <= b THEN a ELSE b

vtok == account.initial_virtual_token_reserves
vsol == account.initial_virtual_sol_reserves
rtok == account.initial_real_token_reserves

\* the quotient of the curve, in unbounded integer arithmetic
Quotient(a) == ((vsol * vtok) \div (vsol + a)) + 1

\* C1: whenever get_initial_buy_price returns a value, that value is at
\* most initial_real_token_reserves.
C1_CeilingRespected ==
    quoted.kind = "ok" => quoted.value <= rtok

\* a call with a positive amount that hit the ceiling: the curve gave
\* strictly more than the real reserves
C1_Witness ==
    /\ quoted.kind = "ok"
    /\ amount > 0
    /\ vtok > 0
    /\ vtok - Quotient(amount) > rtok
    /\ quoted.value = rtok

\* C3: for a positive amount whose quotient exceeds the virtual token
\* reserves, the call fails; no value is returned to the caller.
C3_UnderflowFails ==
    (quoted # NoCall /\ amount > 0 /\ Quotient(amount) > vtok)
        => quoted.kind # "ok"

\* C4: for amounts a1 <= a2 that both return a value, the value for a1 is
\* at most the value for a2, and a value equal to the real token reserves
\* stays equal to them for every larger amount.
C4_Monotone ==
    quoted.kind = "ok" =>
        \A a2 \in U64 :
            LET later == get_initial_buy_price(account, a2, overflow_checks)
            IN  (amount <= a2 /\ later.kind = "ok")
                    => /\ quoted.value <= later.value
                       /\ quoted.value = rtok => later.value = rtok

\* a quote below the ceiling, and a strictly larger quote for a larger amount
C4_Witness ==
    /\ quoted.kind = "ok"
    /\ amount > 0
    /\ quoted.value < rtok
    /\ \E a2 \in U64 :
           /\ a2 > amount
           /\ get_initial_buy_price(account, a2, overflow_checks).kind = "ok"
           /\ get_initial_buy_price(account, a2, overflow_checks).value
                  > quoted.value

\* C5: for every account, a zero amount returns 0 and performs none of the
\* curve's arithmetic.
C5_ZeroAmount ==
    (quoted # NoCall /\ amount = 0) => quoted = Returned(0, <<>>)

\* the zero amount quoted on an account whose reserves are all 0
C5_Witness ==
    /\ quoted # NoCall
    /\ amount = 0
    /\ vtok = 0 /\ vsol = 0 /\ rtok = 0
    /\ quoted.kind = "ok"

\* C9: for a positive amount the quotient exceeds the virtual token
\* reserves exactly when those reserves are 0, so the subtraction
\* underflows exactly for such an account, whatever the amount.
C9_UnderflowIffZeroReserves ==
    (quoted # NoCall /\ amount > 0) =>
        /\ let_i(account, amount) # 0
        /\ (let_r(account, amount) > AsU128(vtok)) <=> (vtok = 0)
        /\ (~FitsU128(s_exact(account, amount))) <=> (vtok = 0)
        /\ (quoted.kind = "panic") <=> (overflow_checks /\ vtok = 0)

\* the largest amount on the largest reserves: no underflow
C9_Witness ==
    /\ quoted.kind = "ok"
    /\ amount = U64Max
    /\ vtok = U64Max
    /\ vsol = U64Max
    /\ "sub" \in { quoted.ops[k] : k \in DOMAIN quoted.ops }

(***************************************************************************)
(* Properties of get_initial_buy_price at the source's widths              *)
(* (specification WideSpec); the quotient is characterised by products,    *)
(* without dividing                                                        *)
(***************************************************************************)
WideOne == BigFromNat(1)

\* the product and the divisor of the curve, in unbounded arithmetic
WideProduct == BigMul(vsol, vtok)
WideDivisor == BigAdd(vsol, amount)

\* product div divisor + 1 <= bound, i.e. product < bound * divisor
QuotientWithin(bound) == BigLess(WideProduct, BigMul(bound, WideDivisor))

\* q = product div divisor + 1, i.e. (q - 1) * divisor <= product < q * divisor
IsQuotient(q) ==
    /\ q # <<>>
    /\ BigLeq(BigMul(BigSub(q, WideOne), WideDivisor), WideProduct)
    /\ BigLess(WideProduct, BigMul(q, WideDivisor))

\* the documented scenario: 1_000_000_000 virtual tokens, 30_000_000_000
\* virtual SOL, 800_000_000 real tokens, amount 1_000_000_000
Scenario ==
    /\ vtok = Giga
    /\ vsol = ThirtyGiga
    /\ rtok = EightHundredMega
    /\ amount = Giga

\* C2: for a positive amount whose quotient, product div (virtual SOL
\* reserves + amount) + 1, does not exceed the virtual token reserves, the
\* call returns min(virtual token reserves - quotient, real token
\* reserves); the documented scenario returns 32_258_064.
C2_CurveValue ==
    (quoted # NoCall /\ amount # <<>> /\ QuotientWithin(vtok)) =>
        /\ quoted.kind = "ok"
        /\ BigLeq(quoted.value, vtok)
        /\ BigLeq(quoted.value, rtok)
        /\ IF BigLess(quoted.value, rtok)
           THEN IsQuotient(BigSub(vtok, quoted.value))
           ELSE /\ BigLeq(rtok, vtok)
                /\ QuotientWithin(BigSub(vtok, rtok))
        /\ Scenario => quoted.value = BigFromNat(32258064)

\* the documented scenario, quoted below the ceiling
C2_Witness ==
    /\ Scenario
    /\ quoted.kind = "ok"
    /\ quoted.value = <<8064, 3225>>
    /\ Len(quoted.ops) = 7

\* C10: for a positive amount the product, the sum and the quotient plus
\* one fit in 128 bits, the divisor is not 0, and the value returned by
\* the below-ceiling branch is the difference itself, below 2^64.
C10_IntermediatesFit ==
    (quoted # NoCall /\ amount # <<>>) =>
        /\ WideFitsU128(wide_n_exact(account))
        /\ WideFitsU128(wide_i_exact(account, amount))
        /\ wide_i(account, amount) # <<>>
        /\ WideFitsU128(wide_locals(account, amount).r_exact)
        /\ (quoted.kind = "ok" /\ Len(quoted.ops) = 7)
               => /\ quoted.value = wide_locals(account, amount).s
                  /\ BigLeq(quoted.value, WideU64Max)

\* the largest reserves and the largest amount, returned through the cast
C10_Witness ==
    /\ quoted.kind = "ok"
    /\ amount = WideU64Max
    /\ vtok = WideU64Max
    /\ vsol = WideU64Max
    /\ rtok = WideU64Max
    /\ Len(quoted.ops) = 7

(***************************************************************************)
(* Properties of the wire image (specification CodecSpec)                  *)
(***************************************************************************)
ImageLen == 8 + 1 + KeyLen + KeyLen + 8 + 8 + 8 + 8 + 8

\* the buffer is the image of the account, as serialize left it
Untouched == bytes = serialize(account)

\* C6: decoding the bytes that encoding an account produced yields a
\* record equal to the account in all nine fields.
C6_RoundTrip ==
    (decoded # NoCall /\ Untouched) =>
        /\ decoded.kind = "ok"
        /\ decoded.rest = <<>>
        /\ DOMAIN decoded.value = GlobalAccount
        /\ \A f \in GlobalAccount : decoded.value[f] = account[f]

\* an account whose two identifiers and two virtual reserves differ,
\* decoded from its image
C6_Witness ==
    /\ decoded.kind = "ok"
    /\ Untouched
    /\ account.authority_bytes # account.fee_recipient_bytes
    /\ vtok # vsol
    /\ decoded.value.authority_bytes = to_bytes(KeyA)
    /\ decoded.value.initial_virtual_sol_reserves = 16909060

\* C7: decoding fewer than 113 bytes ends in an error value, never in a
\* record, and what is left unread is a part of the input.
C7_ShortInputFails ==
    (decoded # NoCall /\ Len(bytes) < 113) =>
        /\ decoded.kind = "err"
        /\ decoded.error \in {"UnexpectedLength", "InvalidBool"}
        /\ \E k \in 0..Len(bytes) :
               decoded.rest = SubSeq(bytes, k + 1, Len(bytes))

\* an image cut after 112 bytes: the read of the last field fails
C7_Witness ==
    /\ decoded.kind = "err"
    /\ Len(bytes) = 112
    /\ decoded.error = "UnexpectedLength"
    /\ Len(decoded.rest) = 7

RECURSIVE ByteOf(_, _)
\* byte k of x, byte 0 the least significant
ByteOf(x, k) == IF k = 0 THEN x % 256 ELSE ByteOf(x \div 256, k - 1)

\* the bytes from offset at on are the 8 bytes of x, least significant first
U64At(at, x) == \A k \in 0..7 : bytes[at + 1 + k] = ByteOf(x, k)

\* the bytes from offset at on are the 32 bytes of key
KeyAt(at, key) == \A k \in 1..32 : bytes[at + k] = key[k]

\* C8: the image of an account is 113 bytes with the fields in declaration
\* order at offsets 0, 8, 9, 41, 73, 81, 89, 97 and 105, integers
\* little-endian, the boolean as one byte 0 or 1.
C8_Layout ==
    (bytes # <<>> /\ Untouched) =>
        /\ Len(bytes) = 113
        /\ U64At(0, account.discriminator)
        /\ bytes[8 + 1] = (IF account.initialized THEN 1 ELSE 0)
        /\ KeyAt(9, account.authority_bytes)
        /\ KeyAt(41, account.fee_recipient_bytes)
        /\ U64At(73, account.initial_virtual_token_reserves)
        /\ U64At(81, account.initial_virtual_sol_reserves)
        /\ U64At(89, account.initial_real_token_reserves)
        /\ U64At(97, account.token_total_supply)
        /\ U64At(105, account.fee_basis_points)

\* the image of an account with multi-byte values: 0x01020304 in the
\* virtual SOL reserves is written 04 03 02 01 00 00 00 00 from offset 81
C8_Witness ==
    /\ Untouched
    /\ Len(bytes) = ImageLen
    /\ account.initialized
    /\ account.discriminator = 2147483647
    /\ SubSeq(bytes, 82, 89) = <<4, 3, 2, 1, 0, 0, 0, 0>>
    /\ SubSeq(bytes, 1, 9) = <<255, 255, 255, 127, 0, 0, 0, 0, 1>>

====
